---- MODULE Spec2Model ----
(***************************************************************************)
(* A model of printer-rs (src/src/lib.rs): the Printer sink (level gate,   *)
(* value-tree printing, Section / Heading scope guards), the progress      *)
(* handles of a MultiProgress group and monitor_process with its two       *)
(* reader threads.                                                         *)
(*                                                                         *)
(* The specifications share the variables:                                 *)
(*   SpecPrinter   the Printer operations                                  *)
(*   SpecProgress  the MultiProgressBar operations                         *)
(*   SpecMonitor   execute_process / monitor_process, the child and the    *)
(*                 reader threads                                          *)
(*   SpecThreads   threads that drive the handles of one group and the     *)
(*                 Printer, each operation split at its lock               *)
(***************************************************************************)
EXTENDS Integers, Sequences, FiniteSets, TLC

VARIABLES
    level,          \* Printer.level
    indent,         \* Printer.indent
    heading_count,  \* Printer.heading_count
    scopes,         \* the live Section / Heading guards, innermost last
    last,           \* the Printer operation that has just run, until its
                    \* caller takes the result: what it was given and did
    bars,           \* the MultiProgressBar handles of the group
    barOp,          \* the handle operation that has just run (as `last`)
    crashed,        \* a handle operation has panicked / aborted the process
    pc,             \* where execute_process / monitor_process stands
    options,        \* the ExecuteOptions and entry point of the run
    child,          \* the child process: state and exit status
    wrote,          \* per stream, the lines the child has written
    pipe,           \* per stream, the lines written and not yet read
    reader,         \* per stream, the state of the reader thread
    chan,           \* per stream, the mpsc channel reader -> monitor
    local,          \* handle_stdout's `stdout` / handle_stderr's `stderr`
    content,        \* stdout_content and stderr_content
    log_file,       \* output_file: whether open, and its text
    exit_status,    \* the status try_wait returned, if any
    outcome,        \* what execute_process returned (anyhow::Result)
    ticks,          \* increment_with_overflow(1) calls of the poll loop
    locks,          \* per mutex, the thread that holds it
    tpc,            \* per thread, the operation it is in and how far
    tbars,          \* per thread, the MultiProgressBar moved into it
    applied,        \* per handle, what the increments applied to it add up to
    opsLeft,        \* per thread, the operations it has still to issue
    batch           \* the BatchRunner: its queue, its units and what they ran

printerVars == <<level, indent, heading_count, scopes, last>>

progressVars == <<bars, barOp, crashed>>

monitorVars ==
    <<pc, options, child, wrote, pipe, reader, chan, local, content, log_file,
      exit_status, outcome, ticks>>

threadVars == <<locks, tpc, tbars, applied, opsLeft>>

batchVars == <<batch>>

vars ==
    <<level, indent, heading_count, scopes, last, bars, barOp, crashed,
      pc, options, child, wrote, pipe, reader, chan, local, content, log_file,
      exit_status, outcome, ticks, locks, tpc, tbars, applied, opsLeft, batch>>

----------------------------------------------------------------------------
(* Level, lib.rs:12-21: derive(PartialOrd, Ord) orders the variants as     *)
(* declared.                                                               *)
Trace == 0
Debug == 1
Message == 2
Info == 3
Warning == 4
Error == 5
Silent == 6
Levels == Trace..Silent

(* Bounds of the model *)
MaxScopes == 2       \* nested Section / Heading guards alive at once
MaxWrites == 3       \* a failing write is one of the first MaxWrites + 1
MaxIndent == 4       \* operations start at an indent of at most MaxIndent
MaxHeadings == 2     \* Heading::new starts at a depth below MaxHeadings

----------------------------------------------------------------------------
(* serde_json::Value as <<tag, children>>; the members of an object are    *)
(* its children in key order, key i standing for the i-th key.             *)
Null == <<"null", <<>>>>
Bool == <<"bool", <<>>>>
Number == <<"number", <<>>>>
String == <<"string", <<>>>>
Object(members) == <<"object", members>>
Array(elements) == <<"array", elements>>

Values ==
    { Null, Number, String,
      Object(<<>>),
      Object(<<Null>>),
      Object(<<Number, Null>>),
      Array(<<Null>>),
      Array(<<Bool, Null>>),
      Object(<<Array(<<Null>>)>>),
      Array(<<Object(<<Null, String>>)>>) }

(* The writer's state while one operation runs: budget is the number of    *)
(* writes that still succeed before one fails (-1: none fails); ok turns   *)
(* FALSE at the failing write, and every later step of the operation is    *)
(* skipped, as `?` returns.                                                *)
Sink(i, budget) == [indent |-> i, out |-> <<>>, budget |-> budget, ok |-> TRUE]

(* Printer::write: one write! to the writer, which may fail. *)
write(st, kind, text) ==
    IF ~st.ok THEN st
    ELSE IF st.budget = 0 THEN [st EXCEPT !.ok = FALSE]
    ELSE [st EXCEPT !.out = Append(@, [k |-> kind, i |-> st.indent, v |-> text]),
                    !.budget = IF @ > 0 THEN @ - 1 ELSE @]

shift_right(st) == [st EXCEPT !.indent = @ + 2]

shift_left(st) == [st EXCEPT !.indent = @ - 2]

RECURSIVE print_value(_, _)
RECURSIVE print_members(_, _, _)
RECURSIVE print_elements(_, _, _)

(* The loop over the map of an Object, lib.rs:473-484. *)
print_members(map, n, st) ==
    IF n > Len(map) \/ ~st.ok THEN st
    ELSE LET value == map[n]
             is_skip == value = Null /\ level > Message
         IN  IF is_skip THEN print_members(map, n + 1, st)
             ELSE LET s1 == write(st, "key", "key")
                      s2 == IF s1.ok THEN print_value(value, s1) ELSE s1
                  IN  print_members(map, n + 1, s2)

(* The loop over an Array, lib.rs:490-493. *)
print_elements(array, n, st) ==
    IF n > Len(array) \/ ~st.ok THEN st
    ELSE LET s1 == write(st, "index", "index")
             s2 == IF s1.ok THEN print_value(array[n], s1) ELSE s1
         IN  print_elements(array, n + 1, s2)

(* Printer::print_value, lib.rs:468-514. *)
print_value(value, st) ==
    IF value[1] = "object" THEN
        LET s1 == write(st, "nl", "\n")
            s2 == IF s1.ok THEN print_members(value[2], 1, shift_right(s1)) ELSE s1
        IN  IF s2.ok THEN shift_left(s2) ELSE s2
    ELSE IF value[1] = "array" THEN
        LET s1 == write(st, "nl", "\n")
            s2 == IF s1.ok THEN print_elements(value[2], 1, shift_right(s1)) ELSE s1
        IN  IF s2.ok THEN shift_left(s2) ELSE s2
    ELSE write(st, "scalar", value[1])

(* Printer::object, lib.rs:439-450. *)
object(value, st) ==
    IF level <= Message /\ value = Null THEN st
    ELSE LET s1 == write(st, "name", "name")
         IN  IF s1.ok THEN print_value(value, s1) ELSE s1

(* The guards of trace .. error, lib.rs:384-424: TRUE when the method      *)
(* returns before object().                                                *)
Methods == {"trace", "debug", "message", "info", "warning", "error"}

MethodLevel(m) ==
    CASE m = "trace" -> Trace
      [] m = "debug" -> Debug
      [] m = "message" -> Message
      [] m = "info" -> Info
      [] m = "warning" -> Warning
      [] m = "error" -> Error

returns_early(m) ==
    CASE m = "trace" -> level = Trace
      [] m = "debug" -> level > Debug
      [] m = "message" -> level > Message
      [] m = "info" -> level > Info
      [] m = "warning" -> level > Warning
      [] m = "error" -> level > Error

(* The shape of `last`. *)
Observed(op, lvl, value, st, budget) ==
    [op |-> op, lvl |-> lvl, value |-> value, ok |-> st.ok, out |-> st.out,
     budget |-> budget, preIndent |-> indent, preHeading |-> heading_count]

Idle ==
    [op |-> "idle", lvl |-> Trace, value |-> Null, ok |-> TRUE, out |-> <<>>,
     budget |-> -1, preIndent |-> 0, preHeading |-> 0]

----------------------------------------------------------------------------
(* MultiProgressBar, lib.rs:58-66. Texts are sequences of one-byte         *)
(* characters. `total` is progress.length(), `pos` progress.position().    *)
Handles == {"first"}

None == [some |-> FALSE, v |-> 0]
Some(n) == [some |-> TRUE, v |-> n]
NoText == [some |-> FALSE, text |-> <<>>]
SomeText(t) == [some |-> TRUE, text |-> t]

NoBar ==
    [state |-> "none", total |-> None, pos |-> 0, prefix_len |-> 0,
     message |-> <<>>, final_message |-> NoText, printer_level |-> Info]

BarIdle ==
    [op |-> "idle", h |-> "first", n |-> 0, text |-> <<>>, flag |-> FALSE,
     pre |-> NoBar]

InitProgress ==
    /\ bars = [h \in Handles |-> NoBar]
    /\ barOp = BarIdle
    /\ crashed = FALSE

----------------------------------------------------------------------------
(* Printer::new_stdout, lib.rs:358-371. *)
InitPrinter ==
    /\ level = Info
    /\ indent = 0
    /\ heading_count = 0
    /\ scopes = <<>>
    /\ last = Idle

(* No process has been started. *)
Streams == {"out", "err"}

(* anyhow::Result<Option<String>>: kind is "ok" or "err" once returned;    *)
(* why names the error, code and text are what its message carries         *)
(* (has_text: Ok(Some(text)) rather than Ok(None)).                        *)
Returns(kind, why, code, has_text, text, directory) ==
    [kind |-> kind, why |-> why, code |-> code, has_text |-> has_text,
     text |-> text, directory |-> directory]

NoResult == Returns("none", "", None, FALSE, <<>>, "")

InitMonitor ==
    /\ pc = "idle"
    /\ options = [entry |-> "printer", is_return_stdout |-> FALSE,
                  working_directory |-> "none", log_file_path |-> "none"]
    /\ child = [state |-> "none", code |-> None]
    /\ wrote = [s \in Streams |-> <<>>]
    /\ pipe = [s \in Streams |-> <<>>]
    /\ reader = [s \in Streams |-> "none"]
    /\ chan = [s \in Streams |-> <<>>]
    /\ local = <<>>
    /\ content = [s \in Streams |-> <<>>]
    /\ log_file = [open |-> FALSE, text |-> <<>>]
    /\ exit_status = [some |-> FALSE, code |-> None]
    /\ outcome = NoResult
    /\ ticks = 0

(* The threads that drive the handles of one group, as in tests::printer,  *)
(* lib.rs:774-808: the thread that owns the Printer and the group, and one *)
(* it spawns. Each works on the handle moved into it, named as the thread. *)
Threads == {"main", "worker"}

PrinterOwner == "main"

MaxOps == 2          \* operations a thread issues before it drops its handle

(* The mutexes there could be: the one of the Printer (lib.rs:365), and *)
(* one per handle if a handle had its own.                                 *)
LockIds == {"printer"} \cup Threads

NoCall == [at |-> "idle", op |-> "none", h |-> "main", n |-> 0, text |-> <<>>]

InitThreads ==
    /\ locks = [l \in LockIds |-> "free"]
    /\ tpc = [t \in Threads |-> NoCall]
    /\ tbars = [t \in Threads |-> NoBar]
    /\ applied = [t \in Threads |-> [sum |-> 0, plain |-> TRUE]]
    /\ opsLeft = [t \in Threads |-> MaxOps]

(* The keys of a batch and the bounds of its runs. *)
Keys == {"build", "test"}

MaxBatch == 4        \* specs added to the runner over a run
MaxRuns == 2         \* calls of execute

NoUnit == [state |-> "none", handle |-> 0, done |-> 0, busy |-> FALSE]

(* A runner with an empty queue. *)
InitBatch ==
    batch = [queue |-> [k \in Keys |-> <<>>],
             added |-> [k \in Keys |-> <<>>],
             nextSpec |-> 1,
             phase |-> "idle",
             runs |-> 0,
             handles |-> 0,
             unit |-> [k \in Keys |-> NoUnit],
             trace |-> <<>>]

(* The state after construction: a new Printer, no handle, no process. *)
Init == InitPrinter /\ InitProgress /\ InitMonitor /\ InitThreads /\ InitBatch

(* `pub level`: the caller assigns the minimum level. *)
SetLevel ==
    \E l \in Levels :
        /\ last = Idle
        /\ level' = l
        /\ UNCHANGED <<batchVars, threadVars, indent, heading_count, scopes, last, progressVars, monitorVars>>

(* The operation's result reaches the caller (Ok(()) or the propagated     *)
(* error): the next operation on the &mut Printer can start.               *)
Returned ==
    /\ last # Idle
    /\ last' = Idle
    /\ UNCHANGED <<batchVars, threadVars, level, indent, heading_count, scopes, progressVars, monitorVars>>

(* Printer::trace, debug, message, info, warning, error. *)
Emit ==
    \E m \in Methods, value \in Values, budget \in -1..MaxWrites :
        /\ last = Idle
        /\ indent <= MaxIndent
        /\ LET st == IF returns_early(m) THEN Sink(indent, budget)
                     ELSE object(value, Sink(indent, budget))
           IN  /\ indent' = st.indent
               /\ last' = Observed(m, MethodLevel(m), value, st, budget)
        /\ UNCHANGED <<batchVars, threadVars, level, heading_count, scopes, progressVars, monitorVars>>

(* Printer::log, lib.rs:426-431. *)
Log ==
    \E l \in Levels, budget \in -1..MaxWrites :
        /\ last = Idle
        /\ LET st == IF level > l THEN Sink(indent, budget)
                     ELSE write(Sink(indent, budget), "log", "log")
           IN  last' = Observed("log", l, String, st, budget)
        /\ UNCHANGED <<batchVars, threadVars, level, indent, heading_count, scopes, progressVars, monitorVars>>

(* Section::new, lib.rs:43-49. *)
SectionNew ==
    \E budget \in -1..MaxWrites :
        /\ last = Idle
        /\ Len(scopes) < MaxScopes
        /\ indent <= MaxIndent
        /\ LET s1 == write(Sink(indent, budget), "section", "name")
               st == IF s1.ok THEN shift_right(s1) ELSE s1
           IN  /\ indent' = st.indent
               /\ scopes' = IF st.ok
                            THEN Append(scopes, [kind |-> "section", indent |-> indent,
                                                 heading |-> heading_count])
                            ELSE scopes
               /\ last' = Observed("Section::new", level, String, st, budget)
        /\ UNCHANGED <<batchVars, threadVars, level, heading_count, progressVars, monitorVars>>

(* Heading::new, lib.rs:233-253. *)
HeadingNew ==
    \E budget \in -1..MaxWrites :
        /\ last = Idle
        /\ Len(scopes) < MaxScopes
        /\ heading_count < MaxHeadings
        /\ LET s1 == write(Sink(indent, budget), "nl", "\n")
               entered == s1.ok
               count == IF entered THEN heading_count + 1 ELSE heading_count
               s2 == write(s1, "heading", IF count = 1 THEN "top" ELSE "sub")
               st == write(s2, "nl", "\n")
           IN  /\ heading_count' = count
               /\ scopes' = IF st.ok
                            THEN Append(scopes, [kind |-> "heading", indent |-> indent,
                                                 heading |-> heading_count])
                            ELSE scopes
               /\ last' = [Observed("Heading::new", level, String, st, budget)
                               EXCEPT !.lvl = count]
        /\ UNCHANGED <<batchVars, threadVars, level, indent, progressVars, monitorVars>>

(* Drop for Section, lib.rs:52-56, and Drop for Heading, lib.rs:256-260:   *)
(* the innermost guard goes out of scope.                                  *)
DropScope ==
    /\ last = Idle
    /\ scopes # <<>>
    /\ LET guard == scopes[Len(scopes)]
       IN  /\ indent' = IF guard.kind = "section" THEN indent - 2 ELSE indent
           /\ heading_count' = IF guard.kind = "heading" THEN heading_count - 1
                               ELSE heading_count
           /\ last' = [Observed("drop", level, String, Sink(indent, -1), -1)
                           EXCEPT !.preIndent = guard.indent,
                                  !.preHeading = guard.heading]
    /\ scopes' = SubSeq(scopes, 1, Len(scopes) - 1)
    /\ UNCHANGED <<batchVars, threadVars, level, progressVars, monitorVars>>

NextPrinter ==
    \/ SetLevel
    \/ Returned
    \/ Emit
    \/ Log
    \/ SectionNew
    \/ HeadingNew
    \/ DropScope

SpecPrinter == Init /\ [][NextPrinter]_vars

----------------------------------------------------------------------------
(* Observations on `last` used by the properties of the Printer. *)
RECURSIVE NullsIn(_)
RECURSIVE NullsInAll(_, _)
NullsInAll(children, n) ==
    IF n > Len(children) THEN 0
    ELSE NullsIn(children[n]) + NullsInAll(children, n + 1)

NullsIn(value) ==
    IF value = Null THEN 1 ELSE NullsInAll(value[2], 1)

NullsPrinted(out) ==
    Cardinality({n \in DOMAIN out : out[n].k = "scalar" /\ out[n].v = "null"})

Emitted == last.op \in Methods \cup {"log"}

(* C6: for each level-gated emit operation (trace .. error, log) and each  *)
(* minimum level of the sink, the message is written if and only if        *)
(* minLevel <= the message's level (here for a value that is not null and  *)
(* a writer that does not fail).                                           *)
C6_WrittenIffLevelAllows ==
    (Emitted /\ last.budget = -1 /\ last.value # Null)
        => (last.out # <<>> <=> level <= last.lvl)

(* C7: a null value, at the top level, as a member of an object or as an   *)
(* element of an array, is suppressed exactly when minLevel is stricter    *)
(* than Message and printed when minLevel is Trace, Debug or Message (for  *)
(* an emit that passed its level gate and a writer that does not fail).    *)
C7_NullSuppressedAboveMessage ==
    (last.op \in Methods /\ level <= last.lvl /\ ~returns_early(last.op)
            /\ last.budget = -1)
        => NullsPrinted(last.out) = IF level > Message THEN 0 ELSE NullsIn(last.value)

(* C8: creating a Section / Heading scope increases indent / heading       *)
(* depth, and on every exit path (the guard dropped, or a write failure    *)
(* propagated out of Section::new / Heading::new) indent and heading depth *)
(* are back at the values they had before the scope was created.           *)
C8_ScopeRestoresDepth ==
    /\ (last.op = "Section::new" /\ last.ok)
            => (indent = last.preIndent + 2 /\ heading_count = last.preHeading)
    /\ (last.op = "Heading::new" /\ last.ok)
            => (indent = last.preIndent /\ heading_count = last.preHeading + 1)
    /\ (last.op \in {"Section::new", "Heading::new"} /\ ~last.ok)
            => (indent = last.preIndent /\ heading_count = last.preHeading)
    /\ last.op = "drop"
            => (indent = last.preIndent /\ heading_count = last.preHeading)

(* C9: indent is never negative and changes only in matched pairs: every   *)
(* key or index written while emit renders a value tree is written at an   *)
(* indent above the starting one, and when emit returns, successfully or   *)
(* with a write error raised at any nesting depth, indent equals its value *)
(* before the call.                                                        *)
C9_EmitLeavesIndent ==
    /\ indent >= 0
    /\ last.op \in Methods =>
        /\ indent = last.preIndent
        /\ \A n \in DOMAIN last.out :
                last.out[n].k \in {"key", "index"} => last.out[n].i > last.preIndent

----------------------------------------------------------------------------
(* The progress handles: MultiProgress::add_progress and the operations of *)
(* MultiProgressBar. Each operation takes the shared lock for its whole    *)
(* mutation, so it is one step.                                            *)

(* Bounds of the model *)
TermWidth == 49      \* the terminal width term_size reports
MaxTotal == 2        \* totals given to add_progress / set_total
MaxCount == 2        \* the count given to increment(_with_overflow)
MaxPos == 3          \* an increment starts at a position of at most MaxPos

(* Program constants *)
progress_width == 28 \* lib.rs:221
BoldBytes == 8       \* .bold(): "\x1b[1m" before and "\x1b[0m" after the text

(* Printer::new_stdout, lib.rs:359-362: max_width = width - 1. *)
max_width == TermWidth - 1

(* The lengths of the prefixes given to add_progress, and the texts given  *)
(* as messages.                                                            *)
PrefixLens == {8, 12}
(* The byte 8 (backspace), which has no escape in a TLA+ string. *)
Backspace == "<BS>"

Texts ==
    { <<"a", "\r", "\n", "b">>, <<"l", "o", "n", "g", "e", "r">>,
      <<Backspace, "x", "y", "z", "\n">> }

EXCLUDED == {Backspace, "\r", "\n"}

IsKept(character) == character \notin EXCLUDED

Spaces(n) == [k \in 1..n |-> " "]

(* sanitize_output, lib.rs:559-574, for max_length >= 0. *)
sanitize_output_NoPadding(input, max_length) ==
    SelectSeq(SubSeq(input, 1, IF Len(input) < max_length THEN Len(input)
                               ELSE max_length), IsKept)

sanitize_output(input, max_length) ==
    LET head == SubSeq(input, 1, IF Len(input) < max_length THEN Len(input)
                                 ELSE max_length)
        result == SelectSeq(head, IsKept)
    IN  result \o Spaces(max_length - Len(result))

(* The width construct_message computes, lib.rs:97-98; below 0 the usize   *)
(* subtraction overflows.                                                  *)
render_width(bar) == max_width - progress_width - bar.prefix_len

(* MultiProgressBar::construct_message, lib.rs:96-99. *)
construct_message(bar, message) == sanitize_output(message, render_width(bar))

(* MultiProgress::add_progress, lib.rs:181-225: a bar with a total or a    *)
(* spinner without one; the prefix is "{prefix}:" in bold.                 *)
add_progress(prefix_len, total, finish_message) ==
    [state |-> "live", total |-> total, pos |-> 0,
     prefix_len |-> prefix_len + 1 + BoldBytes,
     message |-> <<>>, final_message |-> finish_message, printer_level |-> level]

(* MultiProgressBar::set_total, lib.rs:73-81. *)
set_total_KeepPosition(bar, total) ==
    IF bar.total.some /\ bar.total.v # total
    THEN [bar EXCEPT !.total = Some(total)]
    ELSE bar

set_total(bar, total) ==
    IF bar.total.some /\ bar.total.v # total
    THEN [bar EXCEPT !.total = Some(total), !.pos = 0]
    ELSE bar

(* MultiProgressBar::increment, lib.rs:120-123. *)
increment(bar, count) == [bar EXCEPT !.pos = @ + count]

(* The other order: reset a position that has reached the total first,   *)
(* then add the count.                                                     *)
increment_with_overflow_ResetFirst(bar, count) ==
    IF bar.total.some /\ bar.pos >= bar.total.v
    THEN [bar EXCEPT !.pos = count]
    ELSE [bar EXCEPT !.pos = @ + count]

(* MultiProgressBar::increment_with_overflow, lib.rs:110-118. *)
increment_with_overflow_NoWrap(bar, count) == [bar EXCEPT !.pos = @ + count]

increment_with_overflow(bar, count) ==
    LET position == bar.pos + count
    IN  IF bar.total.some /\ position >= bar.total.v
        THEN [bar EXCEPT !.pos = 0]
        ELSE [bar EXCEPT !.pos = position]

(* MultiProgressBar::set_message, lib.rs:101-104. *)
set_message_IfEmpty(bar, message) ==
    IF bar.message = <<>> \/ \A n \in DOMAIN bar.message : bar.message[n] = " "
    THEN [bar EXCEPT !.message = construct_message(bar, message)]
    ELSE bar

set_message(bar, message) == [bar EXCEPT !.message = construct_message(bar, message)]

(* MultiProgressBar::set_ending_message, lib.rs:106-108. *)
set_ending_message(bar, message) ==
    [bar EXCEPT !.final_message = SomeText(construct_message(bar, message))]

(* MultiProgressBar::set_prefix, lib.rs:91-94: the prefix as given. *)
set_prefix(bar, prefix_len) == [bar EXCEPT !.prefix_len = prefix_len]

BarObserved(op, h, n, text, flag) ==
    [op |-> op, h |-> h, n |-> n, text |-> text, flag |-> flag, pre |-> bars[h]]

CanCall == barOp = BarIdle /\ ~crashed

Live(h) == bars[h].state = "live"

AddProgress ==
    \E h \in Handles, prefix_len \in PrefixLens,
       total \in {None} \cup {Some(n) : n \in 0..MaxTotal},
       finish_message \in {NoText} \cup {SomeText(t) : t \in Texts} :
        /\ CanCall
        /\ bars[h].state = "none"
        /\ bars' = [bars EXCEPT ![h] = add_progress(prefix_len, total, finish_message)]
        /\ barOp' = BarObserved("add_progress", h, prefix_len, finish_message.text, total.some)
        /\ UNCHANGED <<batchVars, threadVars, printerVars, crashed, monitorVars>>

SetTotal ==
    \E h \in Handles, total \in 0..MaxTotal :
        /\ CanCall
        /\ Live(h)
        /\ bars' = [bars EXCEPT ![h] = set_total(@, total)]
        /\ barOp' = BarObserved("set_total", h, total, <<>>, FALSE)
        /\ UNCHANGED <<batchVars, threadVars, printerVars, crashed, monitorVars>>

Increment ==
    \E h \in Handles, count \in 0..MaxCount :
        /\ CanCall
        /\ Live(h)
        /\ bars[h].pos <= MaxPos
        /\ bars' = [bars EXCEPT ![h] = increment(@, count)]
        /\ barOp' = BarObserved("increment", h, count, <<>>, FALSE)
        /\ UNCHANGED <<batchVars, threadVars, printerVars, crashed, monitorVars>>

IncrementWithOverflow ==
    \E h \in Handles, count \in 0..MaxCount :
        /\ CanCall
        /\ Live(h)
        /\ bars[h].pos <= MaxPos
        /\ bars' = [bars EXCEPT ![h] = increment_with_overflow(@, count)]
        /\ barOp' = BarObserved("increment_with_overflow", h, count, <<>>, FALSE)
        /\ UNCHANGED <<batchVars, threadVars, printerVars, crashed, monitorVars>>

(* set_message and set_ending_message; when the width subtraction          *)
(* overflows the call panics (debug build) or pads without end (release).  *)
SetMessage ==
    \E h \in Handles, message \in Texts :
        /\ CanCall
        /\ Live(h)
        /\ IF render_width(bars[h]) < 0
           THEN crashed' = TRUE /\ UNCHANGED bars
           ELSE bars' = [bars EXCEPT ![h] = set_message(@, message)]
                /\ UNCHANGED crashed
        /\ barOp' = BarObserved("set_message", h, 0, message, FALSE)
        /\ UNCHANGED <<batchVars, threadVars, printerVars, monitorVars>>

SetEndingMessage ==
    \E h \in Handles, message \in Texts :
        /\ CanCall
        /\ Live(h)
        /\ IF render_width(bars[h]) < 0
           THEN crashed' = TRUE /\ UNCHANGED bars
           ELSE bars' = [bars EXCEPT ![h] = set_ending_message(@, message)]
                /\ UNCHANGED crashed
        /\ barOp' = BarObserved("set_ending_message", h, 0, message, FALSE)
        /\ UNCHANGED <<batchVars, threadVars, printerVars, monitorVars>>

SetPrefix ==
    \E h \in Handles, prefix_len \in PrefixLens :
        /\ CanCall
        /\ Live(h)
        /\ bars' = [bars EXCEPT ![h] = set_prefix(@, prefix_len)]
        /\ barOp' = BarObserved("set_prefix", h, prefix_len, <<>>, FALSE)
        /\ UNCHANGED <<batchVars, threadVars, printerVars, crashed, monitorVars>>

(* MultiProgressBar::log, lib.rs:83-89: flag is TRUE when the line is      *)
(* printed.                                                                *)
BarLog ==
    \E h \in Handles, l \in Levels :
        /\ CanCall
        /\ Live(h)
        /\ barOp' = BarObserved("log", h, l, <<>>, l >= bars[h].printer_level)
        /\ UNCHANGED <<batchVars, threadVars, printerVars, bars, crashed, monitorVars>>

(* Drop for MultiProgressBar, lib.rs:155-163: flag is TRUE when the bar is *)
(* finished with the ending message, which is then in text.                *)
DropBar ==
    \E h \in Handles :
        /\ CanCall
        /\ Live(h)
        /\ LET bar == bars[h]
           IN  IF bar.final_message.some /\ render_width(bar) < 0
               THEN crashed' = TRUE
                    /\ barOp' = BarObserved("drop", h, 0, <<>>, FALSE)
               ELSE /\ UNCHANGED crashed
                    /\ barOp' = BarObserved("drop", h, 0,
                            IF bar.final_message.some
                            THEN construct_message(bar, bar.final_message.text)
                            ELSE <<>>,
                            bar.final_message.some)
        /\ bars' = [bars EXCEPT ![h] = NoBar]
        /\ UNCHANGED <<batchVars, threadVars, printerVars, monitorVars>>

BarReturned ==
    /\ barOp # BarIdle
    /\ ~crashed
    /\ barOp' = BarIdle
    /\ UNCHANGED <<batchVars, threadVars, printerVars, bars, crashed, monitorVars>>

NextProgress ==
    \/ AddProgress
    \/ SetTotal
    \/ Increment
    \/ IncrementWithOverflow
    \/ SetMessage
    \/ SetEndingMessage
    \/ SetPrefix
    \/ BarLog
    \/ DropBar
    \/ BarReturned

SpecProgress == Init /\ [][NextProgress]_vars

----------------------------------------------------------------------------
(* Observations on `barOp` used by the properties of the handles. *)
Overflowed ==
    /\ barOp.op = "increment_with_overflow"
    /\ barOp.pre.total.some

(* C10 as stated: for a handle with a total, increment_with_overflow never *)
(* leaves position > total, and a call made when position >= total         *)
(* observes position reset to 0 first and then accumulates its count, so   *)
(* the count of that call is not lost.                                     *)
C10_ResetThenAccumulate ==
    Overflowed =>
        /\ bars[barOp.h].pos <= barOp.pre.total.v
        /\ (barOp.pre.pos >= barOp.pre.total.v /\ barOp.n < barOp.pre.total.v)
                => bars[barOp.h].pos = barOp.n

(* C10 as amended: for a handle with a total, increment_with_overflow      *)
(* never leaves position > total; it adds its count first and wraps        *)
(* afterwards: the position after the call is 0 when the old position plus *)
(* the count reaches or exceeds total, and the old position plus the count *)
(* otherwise. A call made when position >= total ends at position 0.       *)
C10_AccumulateThenWrap ==
    Overflowed =>
        /\ bars[barOp.h].pos <= barOp.pre.total.v
        /\ bars[barOp.h].pos =
                IF barOp.pre.pos + barOp.n >= barOp.pre.total.v THEN 0
                ELSE barOp.pre.pos + barOp.n
        /\ barOp.pre.pos >= barOp.pre.total.v => bars[barOp.h].pos = 0

(* A call with a count above 0 on a handle that plain increment had taken  *)
(* to its total or beyond.                                                 *)
C10_Witness ==
    /\ Overflowed
    /\ barOp.pre.pos >= barOp.pre.total.v
    /\ barOp.pre.pos > 0
    /\ barOp.n > 0
    /\ bars[barOp.h].pos = 0

(* C11 as stated: for every handle (bounded bar or spinner without a       *)
(* total) and every n, set_total(n) with n different from the handle's     *)
(* current total leaves total = n and position = 0; with n equal to the    *)
(* current total it leaves position and total unchanged.                   *)
C11_SetTotalOnEveryHandle ==
    barOp.op = "set_total" =>
        IF barOp.pre.total # Some(barOp.n)
        THEN bars[barOp.h].total = Some(barOp.n) /\ bars[barOp.h].pos = 0
        ELSE bars[barOp.h] = barOp.pre

(* C11 as amended: for a bounded bar and every n, set_total(n) with n      *)
(* different from the current total leaves total = n and position = 0, and *)
(* with n equal to the current total leaves position and total unchanged;  *)
(* for a spinner (a handle created without a total) set_total(n) changes   *)
(* nothing: the handle keeps no total and its position.                    *)
C11_SetTotalOnBoundedBar ==
    barOp.op = "set_total" =>
        IF barOp.pre.total.some /\ barOp.pre.total.v # barOp.n
        THEN /\ bars[barOp.h] = [barOp.pre EXCEPT !.total = Some(barOp.n), !.pos = 0]
        ELSE /\ bars[barOp.h] = barOp.pre

(* A bounded bar that had advanced is given another total. *)
C11_Witness ==
    /\ barOp.op = "set_total"
    /\ barOp.pre.total.some
    /\ barOp.pre.total.v # barOp.n
    /\ barOp.pre.pos > 0
    /\ bars[barOp.h].total = Some(barOp.n)
    /\ bars[barOp.h].pos = 0

(* C12: over the lifetime of a handle the final message is committed       *)
(* exactly once and only at teardown: teardown renders the ending message  *)
(* that is set (given at add_progress or by the most recent                *)
(* set_ending_message) and ends the handle, it renders nothing when none   *)
(* is set, and set_ending_message and the other operations render no       *)
(* final message and leave the handle live.                                *)
C12_FinalMessageOnceAtTeardown ==
    /\ barOp.op = "drop" =>
        /\ bars[barOp.h].state = "none"
        /\ barOp.flag <=> barOp.pre.final_message.some
        /\ barOp.flag =>
                barOp.text = construct_message(barOp.pre, barOp.pre.final_message.text)
    /\ barOp.op = "add_progress" =>
        /\ bars[barOp.h].state = "live"
        /\ bars[barOp.h].final_message.some <=> barOp.text # <<>>
        /\ bars[barOp.h].final_message.text = barOp.text
    /\ (barOp.op = "set_ending_message" /\ ~crashed) =>
        /\ bars[barOp.h] = [barOp.pre EXCEPT !.final_message =
                SomeText(construct_message(barOp.pre, barOp.text))]
    /\ barOp.op \in {"set_total", "increment", "increment_with_overflow",
                     "set_message", "set_prefix", "log"} =>
        /\ bars[barOp.h].state = "live"
        /\ bars[barOp.h].final_message = barOp.pre.final_message

(* The same for a teardown whose render width is not negative. *)
FinalMessageOnceUnlessUnderflow ==
    (barOp.op = "drop" /\ crashed) \/ C12_FinalMessageOnceAtTeardown

(* A call of set_message has returned: the text it was given, the width    *)
(* it had to fill and the message it stored.                               *)
MessageSet == barOp.op = "set_message" /\ ~crashed

Given == barOp.text

Width == render_width(barOp.pre)

Stored == bars[barOp.h].message

(* The characters of a text that are not backspace, CR or LF. *)
Visible(text) == SelectSeq(text, LAMBDA c : c \notin {Backspace, "\r", "\n"})

(* How many of the first w characters of a text are visible. *)
VisibleWithin(text, w) ==
    Cardinality({n \in DOMAIN text : n <= w /\ text[n] \notin {Backspace, "\r", "\n"}})

Least(a, b) == IF a < b THEN a ELSE b

(* C24 as stated: the message set_message stores has exactly w characters, *)
(* none of them a backspace, CR or LF, and is a prefix of the input with   *)
(* those characters removed, padded with spaces; control characters among  *)
(* the first w input characters do not cost visible characters: as many    *)
(* visible characters are kept as fit in w.                                *)
C24_StrippedThenFitted ==
    MessageSet =>
        /\ Len(Stored) = Width
        /\ \A n \in DOMAIN Stored : Stored[n] \notin {Backspace, "\r", "\n"}
        /\ LET kept == Least(Len(Visible(Given)), Width)
           IN  Stored = SubSeq(Visible(Given), 1, kept) \o [n \in 1..(Width - kept) |-> " "]

(* C24 as amended: for a render width w >= 0 the message stored has        *)
(* exactly w characters, none of them a backspace, CR or LF, and is a      *)
(* prefix of the input with those characters removed, padded on the right  *)
(* with spaces; the prefix kept is made of the visible characters among    *)
(* the first w characters of the input, so a control character among them  *)
(* costs one visible character that would have fitted.                     *)
C24_FittedThenStripped ==
    MessageSet =>
        /\ Width >= 0
        /\ Len(Stored) = Width
        /\ \A n \in DOMAIN Stored : Stored[n] \notin {Backspace, "\r", "\n"}
        /\ LET kept == VisibleWithin(Given, Width)
           IN  /\ kept <= Width
               /\ \A n \in 1..kept : Stored[n] = Visible(Given)[n]
               /\ \A n \in (kept + 1)..Width : Stored[n] = " "

(* A text with a CR and an LF among its first three characters was fitted  *)
(* to a width of three: one visible character is kept where two exist.     *)
C24_Witness ==
    /\ MessageSet
    /\ Width = max_width - progress_width - (8 + 1 + BoldBytes)
    /\ Given = <<"a", "\r", "\n", "b">>
    /\ Stored = <<"a">> \o [n \in 1..(Width - 1) |-> " "]
    /\ Len(Visible(Given)) = 2

(* C26: the render width max_width - progress_width - prefix length never *)
(* underflows: for every prefix given to add_progress or set_prefix it is  *)
(* at least 0, and no set_message, set_ending_message or teardown fails on *)
(* it.                                                                     *)
C26_RenderWidthNeverUnderflows ==
    /\ ~crashed
    /\ \A h \in Handles : Live(h) => render_width(bars[h]) >= 0

----------------------------------------------------------------------------
(* execute_process and monitor_process, the child and the reader threads.  *)

(* Bounds of the model *)
MaxLines == 3        \* lines the child writes, stdout and stderr together
MaxTicks == 2        \* poll cycles that do not see the child's exit

Digits == <<"1", "2", "3", "4", "5">>

(* A byte that is not valid UTF-8: BufRead::lines() yields Err for a line  *)
(* that holds one.                                                         *)
InvalidByte == "<FF>"

(* The n-th line the child writes to stream s, without its newline. *)
Line(s, n) == <<IF s = "out" THEN "o" ELSE "e", Digits[n]>>

IsValid(line) == \A n \in DOMAIN line : line[n] # InvalidByte

ExitCodes == {Some(0), Some(2), None}

(* The program and the arguments of the run, as tests::printer gives       *)
(* them, lib.rs:731-745.                                                   *)
Command == <<"l", "s">>

Arguments == << <<"-", "a">>, <<"x">> >>

(* arguments.join(" "), lib.rs:329, 649. *)
RECURSIVE Join(_)
Join(arguments) ==
    IF arguments = <<>> THEN <<>>
    ELSE IF Len(arguments) = 1 THEN Head(arguments)
    ELSE Head(arguments) \o <<" ">> \o Join(Tail(arguments))

(* The text of get_full_command, lib.rs:328-330. *)
FullCommand == Command \o <<" ">> \o Join(Arguments)

Handle == "first"

(* Printer::info called inside start_process, lib.rs:524-528. *)
info(value, st) ==
    IF ~st.ok \/ level > Info THEN st ELSE object(value, st)

(* The directory check and the spawn that both start_process make,       *)
(* lib.rs:130-137 and lib.rs:526-537: the error, or "" when the child runs. *)
start_process_SpawnUnchecked(working_directory, spawn_ok) ==
    IF ~spawn_ok THEN "spawn" ELSE ""

start_process(working_directory, spawn_ok) ==
    IF working_directory = "missing" THEN "Directory does not exist"
    ELSE IF ~spawn_ok THEN "spawn" ELSE ""

(* Printer::execute_process, lib.rs:540-556, up to the spawn: the section, *)
(* Printer::start_process (lib.rs:516-538) and the progress handle.        *)
ExecutePrinter ==
    /\ pc = "idle"
    /\ \E is_return_stdout \in BOOLEAN,
       working_directory \in {"none", "exists", "missing"},
       log_file_path \in {"none", "ok", "fail"},
       spawn_ok \in BOOLEAN, budget \in -1..MaxWrites :
        /\ pc = "idle"
        /\ options' = [entry |-> "printer", is_return_stdout |-> is_return_stdout,
                       working_directory |-> working_directory,
                       log_file_path |-> log_file_path]
        /\ LET s1 == write(Sink(indent, budget), "section", "name")
               s2 == IF s1.ok THEN shift_right(s1) ELSE s1
               s3 == info(String, s2)
               s4 == IF working_directory # "none" THEN info(String, s3) ELSE s3
               why == IF ~s4.ok THEN "write"
                      ELSE start_process(working_directory, spawn_ok)
           IN  IF why # ""
               THEN /\ outcome' = Returns("err", why, None, FALSE, <<>>,
                                          IF why = "Directory does not exist"
                                          THEN working_directory ELSE "")
                    /\ indent' = IF s1.ok THEN s4.indent - 2 ELSE s4.indent
                    /\ pc' = "done"
                    /\ UNCHANGED <<child, bars>>
               ELSE /\ child' = [state |-> "running", code |-> None]
                    /\ bars' = [bars EXCEPT ![Handle] = add_progress(8, None, NoText)]
                    /\ indent' = s4.indent
                    /\ pc' = "spawned"
                    /\ UNCHANGED outcome
        /\ UNCHANGED <<batchVars, threadVars, level, heading_count, scopes, last, barOp, crashed, wrote,
                       pipe, reader, chan, local, content, log_file, exit_status,
                       ticks>>

(* MultiProgressBar::execute_process, lib.rs:140-152, up to the spawn, on  *)
(* a handle add_progress gave: set_message and                             *)
(* MultiProgressBar::start_process (lib.rs:125-138).                       *)
ExecuteBar ==
    /\ pc = "idle"
    /\ \E is_return_stdout \in BOOLEAN,
       working_directory \in {"none", "exists", "missing"},
       log_file_path \in {"none", "ok", "fail"},
       spawn_ok \in BOOLEAN, total \in {Some(MaxTotal)} :
        /\ pc = "idle"
        /\ options' = [entry |-> "bar", is_return_stdout |-> is_return_stdout,
                       working_directory |-> working_directory,
                       log_file_path |-> log_file_path]
        /\ bars' = [bars EXCEPT ![Handle] =
                        set_message(add_progress(8, total, NoText), FullCommand)]
        /\ LET why == start_process(working_directory, spawn_ok)
           IN  IF why # ""
               THEN /\ outcome' = Returns("err", why, None, FALSE, <<>>,
                                          IF why = "Directory does not exist"
                                          THEN working_directory ELSE "")
                    /\ pc' = "done"
                    /\ UNCHANGED child
               ELSE /\ child' = [state |-> "running", code |-> None]
                    /\ pc' = "spawned"
                    /\ UNCHANGED outcome
        /\ UNCHANGED <<batchVars, threadVars, printerVars, barOp, crashed, wrote, pipe, reader, chan,
                       local, content, log_file, exit_status, ticks>>

(* What leaves scope when Printer::execute_process returns after the       *)
(* spawn: progress_bar (no ending message) and the section.                *)
IndentAfterReturn == IF options.entry = "printer" THEN indent - 2 ELSE indent

BarsAfterReturn ==
    IF options.entry = "printer" THEN [bars EXCEPT ![Handle] = NoBar] ELSE bars

(* options.working_directory.as_deref().unwrap_or(""), lib.rs:647. *)
Directory == IF options.working_directory = "none" THEN <<>> ELSE <<"/", "d">>

(* The header of the log file, lib.rs:644-651. *)
LogHeader_NoBlankLine ==
    <<"command: ">> \o Command \o <<"\n">>
    \o <<"directory: ">> \o Directory \o <<"\n">>
    \o <<"arguments: ">> \o Join(Arguments) \o <<"\n">>

LogHeader ==
    <<"command: ">> \o Command \o <<"\n">>
    \o <<"directory: ">> \o Directory \o <<"\n">>
    \o <<"arguments: ">> \o Join(Arguments) \o <<"\n", "\n">>

(* monitor_process, lib.rs:582-657: the pipes are taken, the two reader    *)
(* threads started, the log file created and its header written.           *)
MonitorSetup ==
    /\ pc = "spawned"
    /\ reader' = [s \in Streams |-> "running"]
    /\ IF options.log_file_path = "fail"
       THEN /\ outcome' = Returns("err", "log file", None, FALSE, <<>>, "")
            /\ pc' = "done"
            /\ indent' = IndentAfterReturn
            /\ bars' = BarsAfterReturn
            /\ UNCHANGED log_file
       ELSE /\ log_file' = IF options.log_file_path = "ok"
                           THEN [open |-> TRUE, text |-> LogHeader]
                           ELSE log_file
            /\ pc' = "try_wait"
            /\ UNCHANGED <<outcome, indent, bars>>
    /\ UNCHANGED <<batchVars, threadVars, level, heading_count, scopes, last, barOp, crashed, options,
                   child, wrote, pipe, chan, local, content, exit_status, ticks>>

(* The poll loop, lib.rs:659-677. try_wait, lib.rs:660-663: the child has  *)
(* exited and its status is returned.                                      *)
HasExited_OnceStarted == child.state # "none"

HasExited == child.state = "exited"

TryWaitExited ==
    /\ pc = "try_wait"
    /\ HasExited
    /\ exit_status' = [some |-> TRUE, code |-> child.code]
    /\ pc' = "join_out"
    /\ UNCHANGED <<batchVars, threadVars, printerVars, progressVars, options, child, wrote, pipe, reader,
                   chan, local, content, log_file, outcome, ticks>>

(* try_wait returns Ok(None): the child is still running. *)
TryWaitRunning ==
    /\ pc = "try_wait"
    /\ child.state = "running"
    /\ ticks < MaxTicks
    /\ pc' = "drain_out"
    /\ UNCHANGED <<batchVars, threadVars, printerVars, progressVars, options, child, wrote, pipe, reader,
                   chan, local, content, log_file, exit_status, outcome, ticks>>

(* try_wait returns Err: `if let Ok(Some(..))` does not match and the      *)
(* cycle goes on as if the child were running.                             *)
TryWaitError ==
    /\ pc = "try_wait"
    /\ child.state = "exited"
    /\ ticks < MaxTicks
    /\ pc' = "drain_out"
    /\ UNCHANGED <<batchVars, threadVars, printerVars, progressVars, options, child, wrote, pipe, reader,
                   chan, local, content, log_file, exit_status, outcome, ticks>>

(* The text handle_stdout keeps for one received line, lib.rs:601-604. *)
handle_stdout_push_IfCaptured(message) ==
    IF options.is_return_stdout THEN local \o message \o <<"\n">> ELSE local

handle_stdout_push(message) ==
    IF log_file.open \/ options.is_return_stdout
    THEN local \o message \o <<"\n">>
    ELSE local

(* handle_stdout, lib.rs:595-616: one turn of `while let Ok(message) =     *)
(* stdout_rx.try_recv()`.                                                  *)
HandleStdoutRecv ==
    /\ pc \in {"drain_out", "final_out"}
    /\ chan["out"] # <<>>
    /\ LET message == Head(chan["out"])
       IN  /\ local' = handle_stdout_push(message)
           /\ bars' = [bars EXCEPT ![Handle] = set_message(@, message)]
    /\ chan' = [chan EXCEPT !["out"] = Tail(@)]
    /\ UNCHANGED <<batchVars, threadVars, printerVars, barOp, crashed, pc, options, child, wrote, pipe,
                   reader, content, log_file, exit_status, outcome, ticks>>

(* What handle_stdout appends to stdout_content, lib.rs:608-610. *)
handle_stdout_content_Always == content["out"] \o local

handle_stdout_content ==
    IF options.is_return_stdout THEN content["out"] \o local ELSE content["out"]

(* try_recv finds the channel empty (or disconnected): the loop ends and   *)
(* the drained text goes to stdout_content and to the log, lib.rs:608-615. *)
HandleStdoutEnd ==
    /\ pc \in {"drain_out", "final_out"}
    /\ chan["out"] = <<>>
    /\ content' = [content EXCEPT !["out"] = handle_stdout_content]
    /\ log_file' = IF log_file.open THEN [log_file EXCEPT !.text = @ \o local]
                   ELSE log_file
    /\ local' = <<>>
    /\ pc' = IF pc = "drain_out" THEN "drain_err" ELSE "final_err"
    /\ UNCHANGED <<batchVars, threadVars, printerVars, progressVars, options, child, wrote, pipe, reader,
                   chan, exit_status, outcome, ticks>>

(* handle_stderr, lib.rs:618-633: one turn of its loop. *)
HandleStderrRecv ==
    /\ pc \in {"drain_err", "final_err"}
    /\ chan["err"] # <<>>
    /\ LET message == Head(chan["err"])
       IN  /\ local' = local \o message \o <<"\n">>
           /\ bars' = [bars EXCEPT ![Handle] = set_message(@, message)]
    /\ chan' = [chan EXCEPT !["err"] = Tail(@)]
    /\ UNCHANGED <<batchVars, threadVars, printerVars, barOp, crashed, pc, options, child, wrote, pipe,
                   reader, content, log_file, exit_status, outcome, ticks>>

(* What handle_stderr appends to stderr_content, lib.rs:628. *)
handle_stderr_content_IfLogged ==
    IF log_file.open THEN content["err"] \o local ELSE content["err"]

handle_stderr_content == content["err"] \o local

HandleStderrEnd ==
    /\ pc \in {"drain_err", "final_err"}
    /\ chan["err"] = <<>>
    /\ content' = [content EXCEPT !["err"] = handle_stderr_content]
    /\ log_file' = IF log_file.open THEN [log_file EXCEPT !.text = @ \o local]
                   ELSE log_file
    /\ local' = <<>>
    /\ pc' = IF pc = "drain_err" THEN "sleep" ELSE "classify"
    /\ UNCHANGED <<batchVars, threadVars, printerVars, progressVars, options, child, wrote, pipe, reader,
                   chan, exit_status, outcome, ticks>>

(* The sleep and increment_with_overflow(1), lib.rs:675-676. *)
SleepAndIncrement ==
    /\ pc = "sleep"
    /\ bars' = [bars EXCEPT ![Handle] = increment_with_overflow(@, 1)]
    /\ ticks' = ticks + 1
    /\ pc' = "try_wait"
    /\ UNCHANGED <<batchVars, threadVars, printerVars, barOp, crashed, options, child, wrote, pipe,
                   reader, chan, local, content, log_file, exit_status, outcome>>

(* Where the monitor goes after the loop, lib.rs:679-694: both joins, then *)
(* the last handle_stdout and handle_stderr.                               *)
AfterJoin_SkipFinalDrain(at) == IF at = "join_out" THEN "join_err" ELSE "classify"

AfterJoin(at) == IF at = "join_out" THEN "join_err" ELSE "final_out"

JoinedStream_OutTwice(at) == "out"

JoinedStream(at) == IF at = "join_out" THEN "out" ELSE "err"

(* stdout_thread.join() and stderr_thread.join(), lib.rs:679-680: returns  *)
(* once the thread has ended, normally or by a panic (`let _ =`).          *)
JoinReader ==
    /\ pc \in {"join_out", "join_err"}
    /\ reader[JoinedStream(pc)] \in {"done", "panicked"}
    /\ pc' = AfterJoin(pc)
    /\ UNCHANGED <<batchVars, threadVars, printerVars, progressVars, options, child, wrote, pipe, reader,
                   chan, local, content, log_file, exit_status, outcome, ticks>>

(* The classification of the exit status, lib.rs:696-713. *)
classify_SignalIsSuccess ==
    IF exit_status.some /\ exit_status.code.some /\ exit_status.code # Some(0)
    THEN Returns("err", "Command failed with exit code", exit_status.code,
                 TRUE, content["err"], "")
    ELSE Returns("ok", "", None, options.is_return_stdout,
                 IF options.is_return_stdout THEN content["out"] ELSE <<>>, "")

classify ==
    IF exit_status.some /\ exit_status.code # Some(0)
    THEN IF exit_status.code.some
         THEN Returns("err", "Command failed with exit code", exit_status.code,
                      TRUE, content["err"], "")
         ELSE Returns("err", "Command failed with unknown exit code", None,
                      TRUE, content["err"], "")
    ELSE Returns("ok", "", None, options.is_return_stdout,
                 IF options.is_return_stdout THEN content["out"] ELSE <<>>, "")

Classify ==
    /\ pc = "classify"
    /\ outcome' = classify
    /\ pc' = "done"
    /\ indent' = IndentAfterReturn
    /\ bars' = BarsAfterReturn
    /\ UNCHANGED <<batchVars, threadVars, level, heading_count, scopes, last, barOp, crashed, options,
                   child, wrote, pipe, reader, chan, local, content, log_file,
                   exit_status, ticks>>

(* The child writes its next line to stdout or stderr; a write to a pipe   *)
(* whose read end is closed (the reader thread has ended) fails.           *)
ChildWrite ==
    \E s \in Streams, valid \in BOOLEAN :
        /\ child.state = "running"
        /\ reader[s] \in {"none", "running"}
        /\ Len(wrote["out"]) + Len(wrote["err"]) < MaxLines
        /\ LET text == Line(s, Len(wrote[s]) + 1)
               line == IF valid THEN text ELSE text \o <<InvalidByte>>
           IN  /\ wrote' = [wrote EXCEPT ![s] = Append(@, line)]
               /\ pipe' = [pipe EXCEPT ![s] = Append(@, line)]
        /\ UNCHANGED <<batchVars, threadVars, printerVars, progressVars, pc, options, child, reader, chan,
                       local, content, log_file, exit_status, outcome, ticks>>

(* The child exits with a code, or is terminated by a signal. *)
ChildExit ==
    \E code \in ExitCodes :
        /\ child.state = "running"
        /\ child' = [state |-> "exited", code |-> code]
        /\ UNCHANGED <<batchVars, threadVars, printerVars, progressVars, pc, options, wrote, pipe, reader,
                       chan, local, content, log_file, exit_status, outcome, ticks>>

(* tx.send on the channel of mpsc::channel(), lib.rs:289, 296: the channel *)
(* has no capacity limit, a send never waits for the receiver.             *)
CanSend_OneSlot(s) == chan[s] = <<>>

CanSend(s) == TRUE

(* line.unwrap(), lib.rs:295: the reader thread goes on with a line it     *)
(* could read and panics at one it could not.                              *)
unwrap_SkipUnreadable(line_ok) == "running"

unwrap(line_ok) == IF line_ok THEN "running" ELSE "panicked"

(* The reader thread of process_child_output, lib.rs:291-298: one turn of  *)
(* `for line in reader.lines()`. line.unwrap() panics on a read error and  *)
(* tx.send(line).unwrap() panics once the receiver is dropped, which it is *)
(* when monitor_process has returned.                                      *)
ReaderLine ==
    \E s \in Streams :
        /\ reader[s] = "running"
        /\ pipe[s] # <<>>
        /\ (IsValid(Head(pipe[s])) /\ pc # "done") => CanSend(s)
        /\ LET line == Head(pipe[s])
           IN  IF IsValid(line) /\ pc # "done"
               THEN /\ chan' = [chan EXCEPT ![s] = Append(@, line)]
                    /\ pipe' = [pipe EXCEPT ![s] = Tail(@)]
                    /\ UNCHANGED reader
               ELSE IF IsValid(line) \/ unwrap(FALSE) = "panicked"
               THEN /\ reader' = [reader EXCEPT ![s] = "panicked"]
                    /\ pipe' = [pipe EXCEPT ![s] = <<>>]
                    /\ UNCHANGED chan
               ELSE /\ pipe' = [pipe EXCEPT ![s] = Tail(@)]
                    /\ UNCHANGED <<reader, chan>>
        /\ UNCHANGED <<batchVars, threadVars, printerVars, progressVars, pc, options, child, wrote, local,
                       content, log_file, exit_status, outcome, ticks>>

(* The pipe is at end of file: the child has exited and all it wrote has   *)
(* been read; the loop and the thread end.                                 *)
ReaderEof ==
    \E s \in Streams :
        /\ reader[s] = "running"
        /\ pipe[s] = <<>>
        /\ child.state = "exited"
        /\ reader' = [reader EXCEPT ![s] = "done"]
        /\ UNCHANGED <<batchVars, threadVars, printerVars, progressVars, pc, options, child, wrote, pipe,
                       chan, local, content, log_file, exit_status, outcome, ticks>>

NextMonitor ==
    \/ ExecutePrinter
    \/ ExecuteBar
    \/ MonitorSetup
    \/ TryWaitExited
    \/ TryWaitRunning
    \/ TryWaitError
    \/ HandleStdoutRecv
    \/ HandleStdoutEnd
    \/ HandleStderrRecv
    \/ HandleStderrEnd
    \/ SleepAndIncrement
    \/ JoinReader
    \/ Classify
    \/ ChildWrite
    \/ ChildExit
    \/ ReaderLine
    \/ ReaderEof

SpecMonitor == Init /\ [][NextMonitor]_vars

(* The thread that runs execute_process and monitor_process, and the two   *)
(* reader threads, lib.rs:291-298: the scheduler lets each of them run.    *)
MonitorThread ==
    \/ MonitorSetup
    \/ TryWaitExited
    \/ TryWaitRunning
    \/ TryWaitError
    \/ HandleStdoutRecv
    \/ HandleStdoutEnd
    \/ HandleStderrRecv
    \/ HandleStderrEnd
    \/ SleepAndIncrement
    \/ JoinReader
    \/ Classify

ReaderThreads == ReaderLine \/ ReaderEof

SpecMonitorFair ==
    SpecMonitor /\ WF_vars(MonitorThread) /\ WF_vars(ReaderThreads)

----------------------------------------------------------------------------
(* Observations used by the properties of the monitor. *)

(* The text of a sequence of lines, each followed by a newline. *)
RECURSIVE Terminated(_)
Terminated(lines) ==
    IF lines = <<>> THEN <<>>
    ELSE Head(lines) \o <<"\n">> \o Terminated(Tail(lines))

(* The lines before the first one that is not valid UTF-8. *)
RECURSIVE Readable(_)
Readable(lines) ==
    IF lines = <<>> \/ ~IsValid(Head(lines)) THEN <<>>
    ELSE <<Head(lines)>> \o Readable(Tail(lines))

AllValid(lines) == \A n \in DOMAIN lines : IsValid(lines[n])

Succeeded == pc = "done" /\ outcome.kind = "ok"

ExitFailure ==
    /\ pc = "done"
    /\ outcome.kind = "err"
    /\ outcome.why \in {"Command failed with exit code",
                        "Command failed with unknown exit code"}

StartFailure ==
    /\ pc = "done"
    /\ outcome.why \in {"write", "Directory does not exist", "spawn"}

(* C1 as stated: for every interleaving of the stdout reader thread, the   *)
(* child's exit and the poll ticks, when stdout capture is requested the   *)
(* text monitor_process returns is exactly the sequence of lines the child *)
(* wrote to stdout, in the order written, each once and                    *)
(* newline-terminated.                                                     *)
C1_CapturedIsAllWritten ==
    (Succeeded /\ options.is_return_stdout)
        => (outcome.has_text /\ outcome.text = Terminated(wrote["out"]))

(* C1 as amended: for every interleaving of the stdout reader thread, the  *)
(* child's exit and the poll ticks, when stdout capture is requested the   *)
(* text returned is exactly the lines the child wrote to stdout before the *)
(* first line that is not valid UTF-8, at which the reader thread ends     *)
(* (line.unwrap(), lib.rs:295); that is every line when all are valid. The *)
(* lines are in the order written, each once and newline-terminated,       *)
(* including those written between the last poll and the child's exit and  *)
(* those of a child that exits before the first poll.                      *)
C1_CapturedIsAllReadable ==
    (Succeeded /\ options.is_return_stdout)
        => (outcome.has_text /\ outcome.text = Terminated(Readable(wrote["out"])))

(* The child wrote several readable lines and exited before the first poll *)
(* drained anything: all of them are in the returned text.                 *)
C1_Witness ==
    /\ Succeeded
    /\ options.is_return_stdout
    /\ Len(wrote["out"]) >= 2
    /\ AllValid(wrote["out"])
    /\ ticks = 0
    /\ outcome.text = Terminated(wrote["out"])

(* C2: monitor_process returns success iff the observed exit status has    *)
(* code 0; any other numeric code c gives a failure carrying exactly c; no *)
(* retrievable code gives a failure with the 'unknown' marker; no run ends *)
(* in success without an exit status having been observed.                 *)
C2_ExitClassification ==
    /\ Succeeded => (exit_status.some /\ child.state = "exited")
    /\ (pc = "done" /\ exit_status.some) =>
        /\ exit_status.code = child.code
        /\ outcome.kind = "ok" <=> exit_status.code = Some(0)
        /\ (exit_status.code.some /\ exit_status.code.v # 0) =>
                /\ outcome.kind = "err"
                /\ outcome.why = "Command failed with exit code"
                /\ outcome.code = exit_status.code
        /\ ~exit_status.code.some =>
                /\ outcome.kind = "err"
                /\ outcome.why = "Command failed with unknown exit code"
                /\ ~outcome.code.some

C2_Witness ==
    /\ ExitFailure
    /\ child.code = Some(2)
    /\ outcome.code = Some(2)

(* C3 as stated: when a command fails (nonzero or unknown exit code), the   *)
(* failure message contains every line the child wrote to stderr, in the   *)
(* order written, each once, for every interleaving and whether or not     *)
(* stdout capture or a log file was requested.                             *)
C3_FailureCarriesAllStderr ==
    ExitFailure => outcome.text = Terminated(wrote["err"])

(* C3 as amended: when a command fails, the failure message contains the   *)
(* lines the child wrote to stderr before the first line that is not valid *)
(* UTF-8, at which the reader thread ends (every line when all are valid), *)
(* in the order written, each once, for every interleaving and whether or  *)
(* not stdout capture or a log file was requested.                         *)
C3_FailureCarriesReadableStderr ==
    ExitFailure => outcome.text = Terminated(Readable(wrote["err"]))

C3_Witness ==
    /\ ExitFailure
    /\ ~options.is_return_stdout
    /\ ~log_file.open
    /\ Len(wrote["err"]) >= 2
    /\ AllValid(wrote["err"])
    /\ outcome.text = Terminated(wrote["err"])

(* C4: on success the result carries the accumulated stdout text iff       *)
(* is_return_stdout was requested; when it was not, the result carries no  *)
(* text and nothing is ever appended to stdout_content.                    *)
C4_StdoutOnlyIfRequested ==
    /\ ~options.is_return_stdout => content["out"] = <<>>
    /\ Succeeded =>
        /\ outcome.has_text <=> options.is_return_stdout
        /\ outcome.text = content["out"]

(* Lines were drained and logged, and none was retained. *)
C4_Witness ==
    /\ Succeeded
    /\ ~options.is_return_stdout
    /\ log_file.open
    /\ Len(wrote["out"]) >= 2
    /\ AllValid(wrote["out"])
    /\ ~outcome.has_text
    /\ content["out"] = <<>>

(* C5 as stated: when the working directory does not exist, both           *)
(* execute_process return an error naming that directory without spawning  *)
(* a child; when the directory check or the spawn fails no reader thread   *)
(* is started, no poll tick happens and the handle is never incremented.   *)
C5_MissingDirectoryNamed ==
    /\ (pc = "done" /\ options.working_directory = "missing") =>
        /\ outcome.kind = "err"
        /\ outcome.why = "Directory does not exist"
        /\ outcome.directory = options.working_directory
        /\ child.state = "none"
    /\ StartFailure =>
        /\ child.state = "none"
        /\ \A s \in Streams : reader[s] = "none"
        /\ ticks = 0
        /\ bars[Handle].pos = 0

(* C5 as amended: when the working directory does not exist, both          *)
(* execute_process return an error without spawning a child; the error     *)
(* names that directory, except that Printer::execute_process returns the  *)
(* write error when one of the writes it makes before the check (section   *)
(* name, "execute" and "directory" lines) fails. When a write, the         *)
(* directory check or the spawn fails, no reader thread is started, no     *)
(* poll tick happens and the handle is never incremented.                  *)
C5_StartFailureBeforeRunning ==
    /\ (pc # "idle" /\ options.working_directory = "missing") =>
        /\ pc = "done"
        /\ outcome.kind = "err"
        /\ child.state = "none"
        /\ outcome.why \in {"Directory does not exist", "write"}
        /\ outcome.why = "write" => options.entry = "printer"
    /\ outcome.why = "Directory does not exist" =>
        /\ options.working_directory = "missing"
        /\ outcome.directory = options.working_directory
    /\ StartFailure =>
        /\ outcome.kind = "err"
        /\ child.state = "none"
        /\ \A s \in Streams : reader[s] = "none"
        /\ ticks = 0
        /\ bars[Handle].pos = 0

C5_Witness ==
    /\ StartFailure
    /\ options.entry = "printer"
    /\ options.working_directory = "missing"
    /\ outcome.why = "Directory does not exist"
    /\ outcome.directory = "missing"
    /\ indent = 0

(* The lines of a text: its pieces between newlines. *)
RECURSIVE LinesFrom(_, _, _)
LinesFrom(text, at, line) ==
    IF at > Len(text) THEN (IF line = <<>> THEN <<>> ELSE <<line>>)
    ELSE IF text[at] = "\n" THEN <<line>> \o LinesFrom(text, at + 1, <<>>)
    ELSE LinesFrom(text, at + 1, Append(line, text[at]))

LinesOf(text) == LinesFrom(text, 1, <<>>)

IsPrefix(a, b) == Len(a) <= Len(b) /\ SubSeq(b, 1, Len(a)) = a

IsOut(line) == line # <<>> /\ line[1] = "o"

IsErr(line) == line # <<>> /\ line[1] = "e"

(* The lines of the log file after its header. *)
LogBody ==
    LinesOf(SubSeq(log_file.text, Len(LogHeader) + 1, Len(log_file.text)))

(* The lines of a stream that are in the log file. *)
Logged(s) ==
    IF s = "out" THEN SelectSeq(LogBody, IsOut) ELSE SelectSeq(LogBody, IsErr)

Draining == pc \in {"drain_out", "final_out", "drain_err", "final_err"}

Classified == pc = "done" /\ outcome.why # "log file" /\ ~StartFailure

C16_HeaderWithFullCommand ==
    log_file.open =>
        SubSeq(LinesOf(log_file.text), 1, 4) =
                << <<"command: ">> \o FullCommand,
                   <<"directory: ">> \o Directory,
                   <<"arguments: ">> \o Join(Arguments),
                   <<>> >>

(* C16 as amended: the log file starts with a three-line header followed   *)
(* by one empty line: the first line is 'command: ' followed by the        *)
(* program alone (its arguments are only on the third line), the second is *)
(* 'directory: ' followed by the working directory or nothing when none is *)
(* set, the third is 'arguments: ' followed by the space-joined arguments; *)
(* the header is written once, before any output line.                     *)
C16_HeaderWithProgram ==
    log_file.open =>
        LET lines == LinesOf(log_file.text)
        IN  /\ Len(lines) >= 4
            /\ SubSeq(lines, 1, 4) =
                    << <<"command: ">> \o Command,
                       <<"directory: ">> \o Directory,
                       <<"arguments: ">> \o <<"-", "a", " ", "x">>,
                       <<>> >>
            /\ \A n \in 5..Len(lines) : IsOut(lines[n]) \/ IsErr(lines[n])

(* A log with the header of a run without working directory and output     *)
(* lines after it.                                                         *)
C16_Witness ==
    /\ Classified
    /\ log_file.open
    /\ options.working_directory = "none"
    /\ LinesOf(log_file.text)[2] = <<"directory: ">>
    /\ Len(LinesOf(log_file.text)) >= 6

(* The monitor leaves a position of monitor_process for another one. *)
Leaves(at) == pc = at /\ pc' # at

Enters(at) == pc # at /\ pc' = at

Ended(s) == reader[s] \in {"done", "panicked"}

(* C18 as stated: once the termination check has succeeded the monitor     *)
(* performs one final drain of both queues, only then joins both reader    *)
(* threads, and classifies the exit after both joins.                      *)
C18_DrainThenJoin ==
    [][/\ (~exit_status.some /\ exit_status'.some) => pc' = "final_out"
       /\ Enters("classify") => pc \in {"join_out", "join_err"}]_vars

(* C18 as amended: once the termination check has succeeded the monitor    *)
(* first joins both reader threads, stdout then stderr, each join          *)
(* returning when that thread has ended; only then it performs one final   *)
(* non-blocking drain of both queues, stdout then stderr, which leaves     *)
(* both queues empty; the exit classification comes after that drain.      *)
C18_JoinThenDrain ==
    /\ [][/\ (~exit_status.some /\ exit_status'.some)
                => pc = "try_wait" /\ pc' = "join_out"
          /\ Enters("join_out") => pc = "try_wait" /\ exit_status'.some
          /\ Leaves("join_out") => pc' = "join_err" /\ Ended("out")
          /\ Leaves("join_err") => pc' = "final_out" /\ Ended("err")
          /\ Enters("final_out") => pc = "join_err"
          /\ Leaves("final_out") => pc' = "final_err" /\ chan["out"] = <<>>
          /\ Leaves("final_err") => pc' = "classify" /\ chan["err"] = <<>>
          /\ Leaves("classify") => pc' = "done"]_vars
    /\ [](pc \in {"final_out", "final_err", "classify"}
                => exit_status.some /\ Ended("out") /\ Ended("err"))
    /\ [](pc = "classify" => chan["out"] = <<>> /\ chan["err"] = <<>>)

(* The monitor is about to classify a run whose lines were all drained     *)
(* after the joins: no poll cycle came before the exit was seen.           *)
C18_Witness ==
    /\ pc = "classify"
    /\ ticks = 0
    /\ Len(content["err"]) > 0
    /\ options.is_return_stdout /\ Len(content["out"]) > 0
    /\ Ended("out") /\ Ended("err")

(* One turn of the loop of handle_stdout or handle_stderr takes a line.    *)
Recv(s) == chan[s] # <<>> /\ chan'[s] = Tail(chan[s])

Monitoring ==
    pc \in {"try_wait", "drain_out", "drain_err", "sleep",
            "join_out", "join_err", "final_out", "final_err"}

LastLine(text) == LinesOf(text)[Len(LinesOf(text))]

(* C19 as stated: in a poll cycle or final drain only the last drained     *)
(* line is pushed as the handle's message: a line that is followed by      *)
(* another one in the queue does not update the message.                   *)
C19_OnlyLastLinePushed ==
    [][\A s \in Streams :
            (Recv(s) /\ chan'[s] # <<>>)
                => bars'[Handle].message = bars[Handle].message]_vars

(* C19 as amended: in each poll cycle and in the final drain every drained *)
(* line is pushed as the handle's message, in the order drained (stdout    *)
(* lines, then stderr lines): the message is updated once per line, and    *)
(* after handle_stdout or handle_stderr has drained at least one line it   *)
(* equals the last line drained, fitted to the render width; a step of the *)
(* monitor that drains no line leaves the message unchanged.               *)
C19_EveryLinePushed ==
    /\ [][/\ \A s \in Streams :
                Recv(s) => bars'[Handle].message =
                                construct_message(bars[Handle], Head(chan[s]))
          /\ (Monitoring /\ pc' # "done" /\ \A s \in Streams : ~Recv(s))
                => bars'[Handle].message = bars[Handle].message]_vars
    /\ []((Draining /\ local # <<>>)
            => bars[Handle].message =
                    construct_message(bars[Handle], LastLine(local)))

(* One handle_stdout call has drained two lines: the message is the second. *)
C19_Witness ==
    /\ pc = "drain_out"
    /\ chan["out"] = <<>>
    /\ Len(LinesOf(local)) = 2
    /\ bars[Handle].message = construct_message(bars[Handle], Line("out", 2))
    /\ bars[Handle].message # construct_message(bars[Handle], Line("out", 1))

(* The position of a handle that started at 0 after some increments by 1   *)
(* that wrap at the total.                                                 *)
Wrapped(count, total) == IF total.some THEN count % total.v ELSE count

(* C20: while the child is running each poll cycle is, in this order, the  *)
(* termination check, the drain of stdout, the drain of stderr, then one   *)
(* increment of the handle by one unit, wrapping to 0 at a total; only a   *)
(* cycle whose check did not succeed increments, so the increments of a    *)
(* run are as many as those cycles, and none when the first check sees the *)
(* exit.                                                                   *)
C20_OneIncrementPerCycle ==
    /\ [][/\ Leaves("try_wait") =>
                \/ pc' = "join_out" /\ exit_status'.some
                \/ pc' = "drain_out" /\ ~exit_status'.some
          /\ Enters("drain_out") => pc = "try_wait"
          /\ Leaves("drain_out") => pc' = "drain_err"
          /\ Leaves("drain_err") => pc' = "sleep"
          /\ Leaves("sleep") =>
                /\ pc' = "try_wait"
                /\ ticks' = ticks + 1
                /\ bars'[Handle].pos =
                        IF bars[Handle].total.some
                           /\ bars[Handle].pos + 1 >= bars[Handle].total.v
                        THEN 0 ELSE bars[Handle].pos + 1
          /\ (Monitoring /\ pc # "sleep" /\ pc' # "done")
                => ticks' = ticks /\ bars'[Handle].pos = bars[Handle].pos]_vars
    /\ [](Monitoring => bars[Handle].pos = Wrapped(ticks, bars[Handle].total))
    /\ [](pc \in {"drain_out", "drain_err", "sleep"} => ~exit_status.some)

(* Two cycles have incremented a bar with a total of two back to 0 and the *)
(* exit has been seen.                                                     *)
C20_Witness ==
    /\ pc = "join_out"
    /\ ticks >= 2
    /\ bars[Handle].total.some
    /\ bars[Handle].pos = Wrapped(ticks, bars[Handle].total)
    /\ bars[Handle].pos < ticks

(* The first check has seen the exit: no increment. *)
C20_NoIncrement ==
    /\ pc = "join_out"
    /\ ticks = 0
    /\ bars[Handle].pos = 0

(* C21: the poll cycle repeats until the termination check succeeds and   *)
(* the monitor then finishes: once the child has exited (its pipes then    *)
(* reach end of file), monitor_process eventually returns, whatever checks *)
(* reported an error before; and it returns a classification only of a     *)
(* child that has exited, with the status of that exit.                    *)
C21_ReturnsOnceChildExited ==
    /\ (child.state = "exited") ~> (pc = "done")
    /\ [](Monitoring /\ ~exit_status.some
            => pc \in {"try_wait", "drain_out", "drain_err", "sleep"})
    /\ [](Classified => child.state = "exited" /\ exit_status.some
                        /\ exit_status.code = child.code)

(* monitor_process has returned the failure of a child that wrote to both  *)
(* streams, after poll cycles that did not see an exit.                    *)
C21_Witness ==
    /\ Classified
    /\ ticks = MaxTicks
    /\ child.state = "exited"
    /\ ExitFailure
    /\ wrote["out"] # <<>> /\ wrote["err"] # <<>>

(* The reader thread of a stream goes on with the next line of its pipe:  *)
(* it sends the line, or ends at a line it cannot read or cannot send.     *)
ReaderTakes(s) == ReaderLine /\ pipe'[s] # pipe[s]

(* C22: a reader thread never waits for the monitor: whatever the monitor  *)
(* is doing and however many lines are undrained in either queue, a        *)
(* running reader with a line in its pipe can take it, so the child's      *)
(* writes to either stream are read in any interleaving.                   *)
C22_ReaderNeverBlocked ==
    \A s \in Streams :
        (reader[s] = "running" /\ pipe[s] # <<>>) => ENABLED ReaderTakes(s)

(* Both queues hold undrained lines, a reader has another line to take and *)
(* the monitor is asleep in its first cycle.                               *)
C22_Witness ==
    /\ pc = "sleep"
    /\ ticks = 0
    /\ Len(chan["out"]) >= 1
    /\ Len(chan["err"]) >= 1
    /\ Len(chan["out"]) + Len(chan["err"]) >= MaxLines - 1
    /\ \E s \in Streams : reader[s] = "running" /\ pipe[s] # <<>>

(* The reader of a stream has met a line it could not read. *)
ReadError(s) == reader[s] = "panicked" /\ ~AllValid(wrote[s])

(* C23: a read error on a line ends the reader of that stream and nothing  *)
(* else: while monitor_process runs a reader ends early only at such a     *)
(* line; the lines it enqueued before are still drained and accumulated,   *)
(* the other stream is read to its end, and monitor_process returns the    *)
(* classification of the child's exit.                                     *)
C23_ReadErrorIsStreamEnd ==
    /\ \A s \in Streams :
        (reader[s] = "panicked" /\ pc # "done") => ~AllValid(wrote[s])
    /\ \A s \in Streams :
        ReadError(s) =>
            \A n \in DOMAIN chan[s] :
                \E k \in DOMAIN Readable(wrote[s]) : chan[s][n] = wrote[s][k]
    /\ (Classified /\ \E s \in Streams : ~AllValid(wrote[s])) =>
        /\ \A s \in Streams : ~AllValid(wrote[s]) => reader[s] = "panicked"
        /\ content["err"] = Terminated(Readable(wrote["err"]))
        /\ options.is_return_stdout
                => content["out"] = Terminated(Readable(wrote["out"]))
        /\ \A s \in Streams : chan[s] = <<>> /\ pipe[s] = <<>>
        /\ \A s \in Streams : AllValid(wrote[s]) => reader[s] = "done"
        /\ exit_status.some /\ exit_status.code = child.code
        /\ outcome.kind = "ok" <=> child.code = Some(0)
        /\ outcome.kind = "err" => outcome.text = content["err"]

(* The stdout reader ended at an unreadable second line: the first line is *)
(* in the captured text, stderr was read to its end, and the run returned  *)
(* the success of the child.                                               *)
C23_Witness ==
    /\ Classified
    /\ Succeeded
    /\ options.is_return_stdout
    /\ ReadError("out")
    /\ Len(wrote["out"]) = 2
    /\ outcome.text = Terminated(<<Line("out", 1)>>)
    /\ reader["err"] = "done"
    /\ wrote["err"] # <<>>

(* C25: on every return of monitor_process taken after the two reader     *)
(* threads were started, both reader threads have been joined and the      *)
(* child's exit status has been collected.                                 *)
C25_EveryReturnJoinsAndReaps ==
    (pc = "done" /\ \E s \in Streams : reader[s] # "none") =>
        /\ \A s \in Streams : Ended(s)
        /\ exit_status.some
        /\ child.state = "exited"

(* The same for the returns after the poll loop. *)
ClassifiedReturnJoinsAndReaps == ~Classified \/ C25_EveryReturnJoinsAndReaps

----------------------------------------------------------------------------
(* Threads on one sink. An operation that takes the lock is three steps:   *)
(* the call (which then waits for the mutex), the acquisition, and the     *)
(* mutation with the release at the end of the operation (`_lock` goes out *)
(* of scope). An operation that takes no lock is the call and the          *)
(* mutation.                                                               *)

(* The text the threads give as message and ending message. *)
ThreadTexts == { <<"a", "\r", "\n", "b">> }

(* The handle a thread's operations act on: the one moved into its         *)
(* closure (`move ||`, lib.rs:778-798), or kept by the spawning thread.    *)
Target_MainHandle(t) == "main"

Target(t) == t

(* The mutex a handle locks: add_progress gives every handle a clone of    *)
(* the Printer's Arc<Mutex<()>>, lib.rs:217.                               *)
lock_of_OwnLock(h) == h

lock_of(h) == "printer"

(* The mutex an operation in progress locks: the Printer's own for write   *)
(* (lib.rs:374) and add_progress (lib.rs:187), the handle's otherwise.     *)
LockFor(call) ==
    IF call.op \in {"write", "add_progress"} THEN "printer" ELSE lock_of(call.h)

(* What an operation mutates. *)
Kind(op) ==
    CASE op \in {"increment", "increment_with_overflow"} -> "position"
      [] op = "set_total" -> "total"
      [] op = "set_prefix" -> "prefix"
      [] op = "set_message" -> "message"
      [] op = "set_ending_message" -> "final_message"
      [] op = "drop" -> "teardown"
      [] op \in {"write", "log"} -> "writer"
      [] op \in {"shift_right", "shift_left"} -> "indent"
      [] op \in {"enter_heading", "exit_heading"} -> "heading"
      [] OTHER -> "group"

(* The operations a spawned thread issues on its handle, lib.rs:778-798:   *)
(* increment, set_message, set_ending_message.                             *)
WorkerCalls ==
    {[op |-> "increment", n |-> n, text |-> <<>>] : n \in {1, 2}}
    \cup {[op |-> o, n |-> 0, text |-> x] :
            o \in {"set_message", "set_ending_message"}, x \in ThreadTexts}

(* The operations of MultiProgressBar the owner of the group issues on the *)
(* handle it keeps.                                                        *)
HandleCalls(t) ==
    IF t # PrinterOwner THEN WorkerCalls
    ELSE WorkerCalls
         \cup {[op |-> o, n |-> 1, text |-> <<>>] :
                    o \in {"increment_with_overflow", "set_total"}}
         \cup {[op |-> "set_prefix", n |-> 8, text |-> <<>>]}
         \cup {[op |-> "log", n |-> Warning, text |-> <<>>]}

(* The operations of the Printer, which only the thread that holds the     *)
(* &mut Printer can issue (through `multi_progress.printer`), and          *)
(* MultiProgress::new on it, lib.rs:171-179.                               *)
PrinterCalls ==
    {[op |-> o, n |-> 0, text |-> <<>>] :
        o \in {"write", "shift_right", "enter_heading", "new"}}

(* Whether the guard an operation took is dropped when it returns: every   *)
(* one is a local `_lock` (lib.rs:76, 85, 92, 102, 111, 121, 158, 173,     *)
(* 187, 374), none is stored or returned.                                  *)
ReleasedAtEnd_GroupKeepsGuard(op) == op # "new"

ReleasedAtEnd(op) == TRUE

(* Whether the operation locks the mutex: write (lib.rs:374), set_total    *)
(* (lib.rs:74-76), log (lib.rs:84-85), set_prefix (lib.rs:92), set_message *)
(* (lib.rs:102), increment_with_overflow (lib.rs:111), increment           *)
(* (lib.rs:121), drop (lib.rs:157-158), add_progress (lib.rs:187); not     *)
(* set_ending_message (lib.rs:106-108), enter_heading, exit_heading,       *)
(* shift_right, shift_left (lib.rs:452-466).                               *)
TakesLock(op, n, bar) ==
    CASE op = "set_total" -> bar.total.some /\ bar.total.v # n
      [] op = "log" -> n >= bar.printer_level
      [] op = "drop" -> bar.final_message.some
      [] op \in {"set_ending_message", "shift_right", "shift_left",
                 "enter_heading", "exit_heading"} -> FALSE
      [] OTHER -> TRUE

(* Whether the operation changes anything at all. *)
Mutates(op, n, bar) ==
    IF op \in {"set_total", "log"} THEN TakesLock(op, n, bar) ELSE TRUE

(* The handle after the operation. *)
Effect(call, bar) ==
    CASE call.op = "increment" -> increment(bar, call.n)
      [] call.op = "increment_with_overflow" -> increment_with_overflow(bar, call.n)
      [] call.op = "set_total" -> set_total(bar, call.n)
      [] call.op = "set_prefix" -> set_prefix(bar, call.n)
      [] call.op = "set_message" -> set_message(bar, call.text)
      [] call.op = "set_ending_message" -> set_ending_message(bar, call.text)
      [] call.op = "drop" -> [bar EXCEPT !.state = "dropped"]
      [] OTHER -> bar

(* What the increments applied to the handle add up to, and whether no     *)
(* other operation has moved its position.                                 *)
Applied(call, a) ==
    CASE call.op = "increment" -> [a EXCEPT !.sum = @ + call.n]
      [] call.op \in {"increment_with_overflow", "set_total"} -> [a EXCEPT !.plain = FALSE]
      [] OTHER -> a

Waits(call, bar) ==
    [at |-> IF TakesLock(call.op, call.n, bar) THEN "acquire" ELSE "mutating",
     op |-> call.op, h |-> "main", n |-> call.n, text |-> call.text]

(* MultiProgress::add_progress, lib.rs:181-225, called by the thread that  *)
(* holds the group, for the handle it keeps or the one it moves into the   *)
(* thread it spawns.                                                       *)
ThreadAddProgress ==
    \E h \in Threads :
        /\ tpc[PrinterOwner].at = "idle"
        /\ tbars[h].state = "none"
        /\ tpc' = [tpc EXCEPT ![PrinterOwner] =
                        [at |-> "acquire", op |-> "add_progress", h |-> h,
                         n |-> 0, text |-> <<>>]]
        /\ UNCHANGED <<printerVars, progressVars, monitorVars, batchVars, locks, tbars,
                       applied, opsLeft>>

(* A thread calls an operation of its handle. *)
ThreadCall ==
    \E t \in Threads :
      \E call \in HandleCalls(t) :
        /\ tpc[t].at = "idle"
        /\ tbars[Target(t)].state = "live"
        /\ opsLeft[t] > 0
        /\ opsLeft' = [opsLeft EXCEPT ![t] = @ - 1]
        /\ tpc' = [tpc EXCEPT ![t] =
                        IF Mutates(call.op, call.n, tbars[Target(t)])
                        THEN [Waits(call, tbars[Target(t)]) EXCEPT !.h = Target(t)]
                        ELSE NoCall]
        /\ UNCHANGED <<printerVars, progressVars, monitorVars, batchVars, locks, tbars, applied>>

(* The owner of the Printer calls write, or one of the operations that     *)
(* Section, Heading and print_value make on indent and heading_count.      *)
PrinterCall ==
    \E call \in PrinterCalls :
        /\ tpc[PrinterOwner].at = "idle"
        /\ opsLeft[PrinterOwner] > 0
        /\ call.op = "shift_right" => indent < MaxIndent
        /\ call.op = "enter_heading" => heading_count < MaxHeadings
        /\ opsLeft' = [opsLeft EXCEPT ![PrinterOwner] = @ - 1]
        /\ tpc' = [tpc EXCEPT ![PrinterOwner] = Waits(call, NoBar)]
        /\ UNCHANGED <<printerVars, progressVars, monitorVars, batchVars, locks, tbars, applied>>

(* The handle goes out of scope at the end of its thread, lib.rs:155-163:  *)
(* with an ending message the drop locks and renders it, without one it    *)
(* does nothing.                                                           *)
ThreadDrop ==
    \E t \in Threads :
        /\ tpc[t].at = "idle"
        /\ tbars[Target(t)].state = "live"
        /\ t = PrinterOwner => \A h \in Threads : tbars[h].state # "none"
        /\ IF TakesLock("drop", 0, tbars[Target(t)])
           THEN /\ tpc' = [tpc EXCEPT ![t] =
                            [at |-> "acquire", op |-> "drop", h |-> Target(t),
                             n |-> 0, text |-> <<>>]]
                /\ UNCHANGED tbars
           ELSE /\ tpc' = [tpc EXCEPT ![t] = [NoCall EXCEPT !.at = "done"]]
                /\ tbars' = [tbars EXCEPT ![Target(t)].state = "dropped"]
        /\ UNCHANGED <<printerVars, progressVars, monitorVars, batchVars, locks, applied, opsLeft>>

(* `self.lock.lock().unwrap()` returns: the mutex was free. *)
Acquire ==
    \E t \in Threads :
        /\ tpc[t].at = "acquire"
        /\ locks[LockFor(tpc[t])] = "free"
        /\ locks' = [locks EXCEPT ![LockFor(tpc[t])] = t]
        /\ tpc' = [tpc EXCEPT ![t].at = "mutating"]
        /\ UNCHANGED <<printerVars, progressVars, monitorVars, batchVars, tbars, applied, opsLeft>>

(* The mutation is made and the operation returns; the guard `_lock` is    *)
(* dropped with it.                                                        *)
Finish ==
    \E t \in Threads :
        /\ tpc[t].at = "mutating"
        /\ LET call == tpc[t]
           IN  /\ tbars' = [tbars EXCEPT ![call.h] =
                                IF call.op = "add_progress"
                                THEN add_progress(5, Some(MaxTotal), NoText)
                                ELSE IF Kind(call.op) \in {"writer", "indent", "heading"}
                                THEN @
                                ELSE Effect(call, @)]
               /\ applied' = [applied EXCEPT ![call.h] = Applied(call, @)]
               /\ indent' = CASE call.op = "shift_right" -> indent + 2
                              [] call.op = "shift_left" -> indent - 2
                              [] OTHER -> indent
               /\ heading_count' = CASE call.op = "enter_heading" -> heading_count + 1
                                     [] call.op = "exit_heading" -> heading_count - 1
                                     [] OTHER -> heading_count
               /\ tpc' = [tpc EXCEPT ![t] =
                            IF call.op = "drop" THEN [NoCall EXCEPT !.at = "done"]
                            ELSE NoCall]
        /\ locks' = [l \in LockIds |->
                        IF locks[l] = t /\ ReleasedAtEnd(tpc[t].op) THEN "free"
                        ELSE locks[l]]
        /\ UNCHANGED <<level, scopes, last, progressVars, monitorVars, batchVars, opsLeft>>

NextThreads ==
    \/ ThreadAddProgress
    \/ ThreadCall
    \/ PrinterCall
    \/ ThreadDrop
    \/ Acquire
    \/ Finish

SpecThreads == Init /\ [][NextThreads]_vars

(* Some thread that can take a step does: the scheduler runs a runnable    *)
(* thread, and a held mutex is released at the end of the operation.       *)
SpecThreadsFair == SpecThreads /\ WF_vars(NextThreads)

----------------------------------------------------------------------------
(* Observations used by the properties of the threads. *)

(* The mutations of sink state: writes, indent shifts, heading-depth       *)
(* changes, progress updates and the teardown render.                      *)
SinkMutations ==
    {"writer", "indent", "heading", "position", "total", "prefix", "message",
     "teardown"}

(* Those the code makes without the lock. *)
Unlocked == {"indent", "heading"}

InProgress(t, kinds) == tpc[t].at = "mutating" /\ Kind(tpc[t].op) \in kinds

Holds(t) == locks["printer"] = t

NoLockOfItsOwn == \A l \in LockIds \ {"printer"} : locks[l] = "free"

AllDone == \A t \in Threads : tpc[t].at = "done"

C14_HandlesIndependent ==
    /\ [](\A h \in Threads : applied[h].plain => tbars[h].pos = applied[h].sum)
    /\ [][\A h \in Threads :
            tbars'[h] # tbars[h] =>
                \E t \in Threads :
                    /\ tpc'[t] # tpc[t]
                    /\ tpc[t].at = "mutating" \/ (tpc[t].at = "idle" /\ tpc'[t].at = "done")
                    /\ tpc[t].at = "mutating" => tpc[t].h = h
                    /\ tpc[t].op # "add_progress" => t = h]_vars
    /\ <>AllDone

(* Both threads have ended, each handle at the sum of its own increments. *)
C14_Witness ==
    /\ AllDone
    /\ \A t \in Threads : applied[t].plain /\ tbars[t].pos = applied[t].sum
    /\ tbars["main"].pos = 2
    /\ tbars["main"].message # <<>>
    /\ tbars["worker"].pos = 1
    /\ tbars["worker"].message = <<>>
    /\ tbars["worker"].final_message.some


Waiting(t) == tpc[t].at = "acquire"

(* C27: the lock of the sink is never acquired by a thread that holds it   *)
(* and is released at the end of every operation that acquires it: a       *)
(* thread holds it only inside such an operation, and whenever a thread    *)
(* waits for it, it is free or held by a thread that is not waiting and    *)
(* can finish its operation; never do all threads wait.                    *)
C27_LockReleasedNoDeadlock ==
    /\ \A t \in Threads : Waiting(t) => \A l \in LockIds : locks[l] # t
    /\ \A t \in Threads :
            tpc[t].at \in {"idle", "done"} => \A l \in LockIds : locks[l] # t
    /\ \A l \in LockIds :
            locks[l] # "free" =>
                /\ tpc[locks[l]].at = "mutating"
                /\ TakesLock(tpc[locks[l]].op, tpc[locks[l]].n, tbars[tpc[locks[l]].h])
                /\ LockFor(tpc[locks[l]]) = l
    /\ (\E t \in Threads : Waiting(t)) => ENABLED (Acquire \/ Finish)
    /\ ~(\A t \in Threads : Waiting(t) /\ locks[LockFor(tpc[t])] # "free")

(* The teardown of one handle waits for the lock while the owner of the    *)
(* group is inside increment_with_overflow.                                *)
C27_Witness ==
    /\ Waiting("worker")
    /\ tpc["worker"].op = "drop"
    /\ tpc["main"].at = "mutating"
    /\ tpc["main"].op = "increment_with_overflow"
    /\ locks["printer"] = "main"

----------------------------------------------------------------------------
(* BatchRunner: add queues specs under a key; execute gives every key a    *)
(* unit of its own with its own handle, and returns when all have ended.   *)

(* The spec a unit runs next: the first of its queue it has not yet run.   *)
NextSpec_NewestFirst(k) ==
    batch.queue[k][Len(batch.queue[k]) - batch.unit[k].done]

NextSpec(k) == batch.queue[k][batch.unit[k].done + 1]

(* add(key, specs): the specs go to the end of the key's queue. *)
BatchAdd ==
    \E k \in Keys, n \in 1..2 :
        /\ batch.phase = "idle"
        /\ batch.nextSpec + n - 1 <= MaxBatch
        /\ LET specs == [i \in 1..n |-> batch.nextSpec + i - 1]
           IN  batch' = [batch EXCEPT !.queue[k] = @ \o specs,
                                      !.added[k] = @ \o specs,
                                      !.nextSpec = @ + n]
        /\ UNCHANGED <<printerVars, progressVars, monitorVars, threadVars>>

(* execute: one handle and one unit for every key that has a queue. *)
BatchExecute ==
    /\ batch.phase = "idle"
    /\ batch.runs < MaxRuns
    /\ LET keyed == {k \in Keys : batch.queue[k] # <<>>}
           first == CHOOSE k \in Keys : TRUE
           handle(k) == batch.handles + (IF Cardinality(keyed) = 2 /\ k # first
                                         THEN 2 ELSE 1)
       IN  batch' = [batch EXCEPT
                        !.phase = "executing",
                        !.runs = @ + 1,
                        !.handles = @ + Cardinality(keyed),
                        !.unit = [k \in Keys |->
                                    IF k \in keyed
                                    THEN [state |-> "running", handle |-> handle(k),
                                          done |-> 0, busy |-> FALSE]
                                    ELSE NoUnit]]
    /\ UNCHANGED <<printerVars, progressVars, monitorVars, threadVars>>

(* A unit starts the next spec of its key on its handle. *)
UnitStart ==
    \E k \in Keys :
        /\ batch.phase = "executing"
        /\ batch.unit[k].state = "running"
        /\ ~batch.unit[k].busy
        /\ batch.unit[k].done < Len(batch.queue[k])
        /\ batch' = [batch EXCEPT
                        !.unit[k].busy = TRUE,
                        !.trace = Append(@, [kind |-> "start", key |-> k,
                                             spec |-> NextSpec(k),
                                             handle |-> batch.unit[k].handle,
                                             run |-> batch.runs])]
        /\ UNCHANGED <<printerVars, progressVars, monitorVars, threadVars>>

(* The spec a unit is running ends. *)
UnitFinish ==
    \E k \in Keys :
        /\ batch.unit[k].state = "running"
        /\ batch.unit[k].busy
        /\ batch' = [batch EXCEPT
                        !.unit[k].busy = FALSE,
                        !.unit[k].done = @ + 1,
                        !.trace = Append(@, [kind |-> "end", key |-> k,
                                             spec |-> NextSpec(k),
                                             handle |-> batch.unit[k].handle,
                                             run |-> batch.runs])]
        /\ UNCHANGED <<printerVars, progressVars, monitorVars, threadVars>>

(* A unit has run its whole queue and ends. *)
UnitEnd ==
    \E k \in Keys :
        /\ batch.unit[k].state = "running"
        /\ ~batch.unit[k].busy
        /\ batch.unit[k].done = Len(batch.queue[k])
        /\ batch' = [batch EXCEPT !.unit[k].state = "ended"]
        /\ UNCHANGED <<printerVars, progressVars, monitorVars, threadVars>>

(* execute has joined every unit: the queue is cleared and it returns. *)
BatchReturn ==
    /\ batch.phase = "executing"
    /\ \A k \in Keys : batch.unit[k].state \in {"none", "ended"}
    /\ batch' = [batch EXCEPT !.phase = "idle",
                              !.queue = [k \in Keys |-> <<>>],
                              !.unit = [k \in Keys |-> NoUnit]]
    /\ UNCHANGED <<printerVars, progressVars, monitorVars, threadVars>>

NextBatch ==
    \/ BatchAdd
    \/ BatchExecute
    \/ UnitStart
    \/ UnitFinish
    \/ UnitEnd
    \/ BatchReturn

SpecBatch == Init /\ [][NextBatch]_vars

----------------------------------------------------------------------------
(* Observations on the BatchRunner.                                        *)

(* What the units have done for a key, oldest first. *)
EventsOf(k) == SelectSeq(batch.trace, LAMBDA e : e.key = k)

(* Specs run strictly one after another: each starts and ends before the   *)
(* next starts.                                                            *)
RECURSIVE OneAfterAnother(_)
OneAfterAnother(specs) ==
    IF specs = <<>> THEN <<>>
    ELSE <<[kind |-> "start", spec |-> Head(specs)],
           [kind |-> "end", spec |-> Head(specs)]>>
         \o OneAfterAnother(Tail(specs))

KindAndSpec(events) ==
    [n \in DOMAIN events |-> [kind |-> events[n].kind, spec |-> events[n].spec]]

(* The specs of a key that have been through an execute. *)
Executed(k) == SubSeq(batch.added[k], 1, Len(batch.added[k]) - Len(batch.queue[k]))

(* C17: execute runs the specs of each key strictly one after another in   *)
(* the order they were added (repeated adds extend the queue), on one      *)
(* handle per key and no handle for two keys, whatever the units of the    *)
(* other keys do meanwhile; and it returns only after every unit has       *)
(* ended, having run every queued spec.                                    *)
C17_KeysSequentialUnitsJoined ==
    /\ \A k \in Keys :
        /\ IsPrefix(KindAndSpec(EventsOf(k)), OneAfterAnother(batch.added[k]))
        /\ batch.phase = "idle" =>
                /\ KindAndSpec(EventsOf(k)) = OneAfterAnother(Executed(k))
                /\ batch.unit[k].state = "none"
    /\ \A m, n \in DOMAIN batch.trace :
        /\ (batch.trace[m].key = batch.trace[n].key
            /\ batch.trace[m].run = batch.trace[n].run)
                => batch.trace[m].handle = batch.trace[n].handle
        /\ batch.trace[m].key # batch.trace[n].key
                => batch.trace[m].handle # batch.trace[n].handle

(* An execute has returned after running three specs of one key, added by  *)
(* two calls, while a spec of the other key ran between them.              *)
C17_Witness ==
    /\ batch.phase = "idle"
    /\ batch.runs = 1
    /\ Len(batch.added["build"]) = 3
    /\ batch.added["test"] # <<>>
    /\ batch.added["build"] # <<1, 2, 3>>
    /\ \A k \in Keys : batch.queue[k] = <<>>
    /\ \E m, n \in DOMAIN batch.trace :
        /\ m < n /\ n + 1 \in DOMAIN batch.trace
        /\ batch.trace[m].key = "build" /\ batch.trace[m].kind = "start"
        /\ batch.trace[n].key = "test" /\ batch.trace[n].kind = "start"
        /\ batch.trace[n + 1].key = "build" /\ batch.trace[n + 1].kind = "end"
        /\ batch.trace[n + 1].spec = batch.trace[m].spec

====
